---- MODULE Spec2Model ----
(***************************************************************************)
(* A model of falba: the Result / Db loaders of model.py, the controlled   *)
(* comparison and the import of cli.py, and the bpftrace enricher of       *)
(* enrichers.py.                                                            *)
(*                                                                         *)
(* Names of directories are sequences of tokens, ":" being the separator   *)
(* that Result.__post_init__ splits on.  An optional value (Python None,   *)
(* a null cell of a DataFrame) is the empty sequence, a present value v is *)
(* the one-element sequence <<v>>.  A dict is a function whose DOMAIN is   *)
(* the set of its keys.                                                     *)
(***************************************************************************)
EXTENDS Integers, Sequences, FiniteSets, TLC

VARIABLES
    root,     \* what is on disk: the store directory with its children,
              \* or the one artifact file an enricher is run on
    res,      \* outcome of the last Result.read_dir or enricher call
    dbres,    \* outcome of the last Db.read_dir call
    db,       \* the in-memory Db that compare and flat_df work on
    call      \* the last call made on db, with its arguments and outcome

vars == <<root, res, dbres, db, call>>

----------------------------------------------------------------------------
(* Bounds of the model and the small sets the inputs are drawn from.       *)

MaxChildren == 2       \* children of the store directory
MaxItems == 2          \* Facts and Metrics produced in the whole store

FactNames == {"f", "g"}
MetricNames == {"m", "f"}
FactValues == {1, 2}

None == <<>>
Some(v) == <<v>>
NoCall == [op |-> "none"]

RESULTS_JSON == <<"results.json">>
ChildNames == {<<"t", ":", "x">>, <<"a", ":", "b", ":", "y">>, RESULTS_JSON}
RootNames == {<<"results">>, RESULTS_JSON}

\* The value of a Metric with the polars dtype its column gets: a Python int
\* n, or a Python str (whose text plays no part).
IntVal(n) == [dtype |-> "Int64", v |-> n]
StrVal == [dtype |-> "String", v |-> 0]

LoadFacts == [name : FactNames, value : {1}, unit : {None}]
LoadMetrics == [name : MetricNames, value : {IntVal(1)}, unit : {None}]

SeqsUpTo(S, n) == UNION {[1..k -> S] : k \in 0..n}

\* What one enricher call returns for one artifact.  A call that returns two
\* empty sequences changes nothing in Result.read_dir and is left out.
CallOutputs ==
    {c \in [facts : SeqsUpTo(LoadFacts, MaxItems), metrics : SeqsUpTo(LoadMetrics, MaxItems)] :
        Len(c.facts) + Len(c.metrics) \in 1..MaxItems}

----------------------------------------------------------------------------
(* model.py: Result                                                        *)

\* The positions of ":" in a directory name.
Colons(name) == {i \in 1..Len(name) : name[i] = ":"}

Max(S) == CHOOSE x \in S : \A y \in S : y <= x

\* str.rsplit(":", maxsplit=1): the parts around the last ":", or the whole
\* name as the only part when there is no ":".
rsplit(name) ==
    IF Colons(name) = {} THEN <<name>>
    ELSE LET i == Max(Colons(name))
         IN  <<SubSeq(name, 1, i - 1), SubSeq(name, i + 1, Len(name))>>

\* dict assignment d[k] = v
DictSet(d, k, v) == [x \in DOMAIN d \cup {k} |-> IF x = k THEN v ELSE d[x]]

EmptyDict == [x \in {} |-> 0]

\* The accumulators of the enrichment loop of Result.read_dir.
EnrichStart == [fact_to_enricher |-> EmptyDict, facts |-> EmptyDict, metrics |-> <<>>,
                error |-> "none"]

\* FactLoop with the duplicate test made against the producing enricher: a
\* name is refused only when another call produced it.
RECURSIVE FactLoopOtherEnricher(_, _, _, _)
FactLoopOtherEnricher(acc, new_facts, j, enricher) ==
    IF j > Len(new_facts) THEN acc
    ELSE LET fact == new_facts[j]
         IN  IF /\ fact.name \in DOMAIN acc.fact_to_enricher
                /\ acc.fact_to_enricher[fact.name] # enricher
             THEN [acc EXCEPT !.error = "DuplicateFact"]
             ELSE FactLoopOtherEnricher(
                      [acc EXCEPT !.facts = DictSet(@, fact.name, fact),
                                  !.fact_to_enricher = DictSet(@, fact.name, enricher)],
                      new_facts, j + 1, enricher)

\* for fact in new_facts: the loop of lines 75-82, from the j-th Fact on.
\* `enricher' is the index of the call that produced new_facts.
RECURSIVE FactLoop(_, _, _, _)
FactLoop(acc, new_facts, j, enricher) ==
    IF j > Len(new_facts) THEN acc
    ELSE LET fact == new_facts[j]
         IN  IF fact.name \in DOMAIN acc.fact_to_enricher
             THEN [acc EXCEPT !.error = "DuplicateFact"]
             ELSE FactLoop([acc EXCEPT !.facts = DictSet(@, fact.name, fact),
                                       !.fact_to_enricher = DictSet(@, fact.name, enricher)],
                           new_facts, j + 1, enricher)

\* MetricLoop keeping one sample per Metric name.
RECURSIVE MetricLoopDedup(_, _, _)
MetricLoopDedup(acc, new_metrics, j) ==
    IF j > Len(new_metrics) THEN acc
    ELSE LET metric == new_metrics[j]
         IN  IF metric.name \in DOMAIN acc.fact_to_enricher
             THEN [acc EXCEPT !.error = "MetricShadowsFact"]
             ELSE IF \E i \in 1..Len(acc.metrics) : acc.metrics[i].name = metric.name
             THEN MetricLoopDedup(acc, new_metrics, j + 1)
             ELSE MetricLoopDedup([acc EXCEPT !.metrics = Append(@, metric)],
                                  new_metrics, j + 1)

\* for metric in new_metrics: the loop of lines 83-90, from the j-th Metric on.
RECURSIVE MetricLoop(_, _, _)
MetricLoop(acc, new_metrics, j) ==
    IF j > Len(new_metrics) THEN acc
    ELSE LET metric == new_metrics[j]
         IN  IF metric.name \in DOMAIN acc.fact_to_enricher
             THEN [acc EXCEPT !.error = "MetricShadowsFact"]
             ELSE MetricLoop([acc EXCEPT !.metrics = Append(@, metric)], new_metrics, j + 1)

\* The enricher calls of lines 72-90, from the k-th call on; calls lists the
\* outputs of enricher(artifact) in the order the two nested loops make them.
RECURSIVE EnrichLoop(_, _, _)
EnrichLoop(acc, calls, k) ==
    IF k > Len(calls) THEN acc
    ELSE LET a1 == FactLoop(acc, calls[k].facts, 1, k)
         IN  IF a1.error # "none" THEN a1
             ELSE LET a2 == MetricLoop(a1, calls[k].metrics, 1)
                  IN  IF a2.error # "none" THEN a2
                      ELSE EnrichLoop(a2, calls, k + 1)

\* Result.__init__ and __post_init__: the dataclass with test_name and
\* result_id split off the directory name.
NewResult(result_dirname, facts, metrics) ==
    LET parts == rsplit(result_dirname)
    IN  IF Len(parts) # 2 THEN [status |-> "ValueError"]
        ELSE [status |-> "ok",
              result |-> [result_dirname |-> result_dirname,
                          test_name |-> parts[1], result_id |-> parts[2],
                          facts |-> facts, metrics |-> metrics]]

\* Result.read_dir(dire, enrichers)
Result_read_dir(dire) ==
    IF ~dire.isdir THEN [status |-> "NotADirectory"]
    ELSE LET acc == EnrichLoop(EnrichStart, dire.calls, 1)
         IN  IF acc.error # "none" THEN [status |-> "DuplicateAttribute", site |-> acc.error]
             ELSE NewResult(dire.name, acc.facts, acc.metrics)

----------------------------------------------------------------------------
(* model.py: Db                                                            *)

\* The loop of Db.read_dir from the i-th child on.
RECURSIVE DbLoop(_, _, _)
DbLoop(dire, results, i) ==
    IF i > Len(dire.children) THEN [status |-> "ok", results |-> results]
    ELSE LET p == dire.children[i]
         IN  IF dire.name = RESULTS_JSON THEN DbLoop(dire, results, i + 1)
             ELSE LET r == Result_read_dir(p)
                  IN  IF r.status # "ok" THEN [status |-> r.status, failed |-> p.name]
                      ELSE DbLoop(dire, DictSet(results, p.name, r.result), i + 1)

\* Db.read_dir(dire, enrichers)
Db_read_dir(dire) == DbLoop(dire, EmptyDict, 1)

\* The values of a dict as a list.  Python keeps insertion order; the model
\* fixes one order of the keys, and nothing below depends on which.
RECURSIVE SetToSeq(_)
SetToSeq(S) ==
    IF S = {} THEN <<>>
    ELSE LET x == CHOOSE y \in S : TRUE IN <<x>> \o SetToSeq(S \ {x})

RECURSIVE ValuesIn(_, _, _)
ValuesIn(d, keys, i) ==
    IF i > Len(keys) THEN <<>> ELSE <<d[keys[i]]>> \o ValuesIn(d, keys, i + 1)

Values(d) == ValuesIn(d, SetToSeq(DOMAIN d), 1)

\* Db.unique_facts()
RECURSIVE UniqueFactsLoop(_, _)
UniqueFactsLoop(results, i) ==
    IF i > Len(results) THEN {}
    ELSE DOMAIN results[i].facts \cup UniqueFactsLoop(results, i + 1)

unique_facts(d) == UniqueFactsLoop(Values(d.results), 1)

\* The cell of a Fact column in a row of Result result: the value of the
\* Fact, or null when the row's dict has no such key.
Cell(result, name) ==
    IF name \in DOMAIN result.facts THEN Some(result.facts[name].value) ELSE None

\* metric.unit or ""
UnitOrEmpty(unit) == IF unit = None THEN "" ELSE unit[1]

\* flat_df with every row carrying the Facts of the first Result.
FlatRowFirstFacts(results, result, metric, schema) ==
    [result_id |-> result.result_id, test_name |-> result.test_name,
     metric |-> metric.name, value |-> metric.value, unit |-> UnitOrEmpty(metric.unit),
     cells |-> [n \in schema |-> Cell(results[1], n)]]

\* One row of flat_df, lines 142-150, under the schema of line 152.
FlatRow(results, result, metric, schema) ==
    [result_id |-> result.result_id, test_name |-> result.test_name,
     metric |-> metric.name, value |-> metric.value, unit |-> UnitOrEmpty(metric.unit),
     cells |-> [n \in schema |-> Cell(result, n)]]

\* The loops of Db.flat_df from Metric j of Result i on.
RECURSIVE FlatLoop(_, _, _, _)
FlatLoop(results, schema, i, j) ==
    IF i > Len(results) THEN <<>>
    ELSE IF j > Len(results[i].metrics) THEN FlatLoop(results, schema, i + 1, 1)
    ELSE <<FlatRow(results, results[i], results[i].metrics[j], schema)>>
         \o FlatLoop(results, schema, i, j + 1)

\* Db.flat_df(): the rows, and the Fact columns of the schema.
flat_df(d) ==
    LET schema == unique_facts(d)
    IN  [rows |-> FlatLoop(Values(d.results), schema, 1, 1), columns |-> schema]

----------------------------------------------------------------------------
(* cli.py: compare                                                         *)

\* include_result refusing a Result that lacks a filtered Fact.
include_result_strict(result, facts_eq) ==
    \A name \in DOMAIN facts_eq :
        name \in DOMAIN result.facts /\ result.facts[name].value = facts_eq[name]

\* include_result(result), lines 57-61, for the equality filter facts_eq.
include_result(result, facts_eq) ==
    ~ \E name \in DOMAIN facts_eq :
        name \in DOMAIN result.facts /\ result.facts[name].value # facts_eq[name]

\* The list comprehension of line 63.
RECURSIVE FilterResults(_, _, _)
FilterResults(all, facts_eq, i) ==
    IF i > Len(all) THEN <<>>
    ELSE (IF include_result(all[i], facts_eq) THEN <<all[i]>> ELSE <<>>)
         \o FilterResults(all, facts_eq, i + 1)

\* The set vals of lines 70-75 for one Fact, from the i-th Result on.
RECURSIVE ValsLoop(_, _, _)
ValsLoop(results, fact, i) ==
    IF i > Len(results) THEN {}
    ELSE (IF fact \in DOMAIN results[i].facts
          THEN {Some(results[i].facts[fact].value)} ELSE {None})
         \cup ValsLoop(results, fact, i + 1)

\* The confound check passing over the Results that lack the Fact.
RECURSIVE ConfoundLoopPresentOnly(_, _, _, _)
ConfoundLoopPresentOnly(results, q, facts, k) ==
    IF k > Len(facts) THEN [status |-> "ok"]
    ELSE LET fact == facts[k]
         IN  IF fact = q.experiment_fact \/ fact \in DOMAIN q.facts_eq
                \/ fact \in q.ignore_facts
             THEN ConfoundLoopPresentOnly(results, q, facts, k + 1)
             ELSE LET vals == ValsLoop(results, fact, 1) \ {None}
                  IN  IF Cardinality(vals) > 1
                      THEN [status |-> "UnresolvedConfound", fact |-> fact, vals |-> vals]
                      ELSE ConfoundLoopPresentOnly(results, q, facts, k + 1)

\* The confound check of lines 67-80; facts lists extant_facts in the order
\* the set is iterated, from the k-th on.
RECURSIVE ConfoundLoop(_, _, _, _)
ConfoundLoop(results, q, facts, k) ==
    IF k > Len(facts) THEN [status |-> "ok"]
    ELSE LET fact == facts[k]
         IN  IF fact = q.experiment_fact \/ fact \in DOMAIN q.facts_eq
                \/ fact \in q.ignore_facts
             THEN ConfoundLoop(results, q, facts, k + 1)
             ELSE LET vals == ValsLoop(results, fact, 1)
                  IN  IF Cardinality(vals) > 1
                      THEN [status |-> "UnresolvedConfound", fact |-> fact, vals |-> vals]
                      ELSE ConfoundLoop(results, q, facts, k + 1)

\* DataFrame.filter
FilterRows(rows, Keep(_)) == SelectSeq(rows, Keep)

\* df.select(col).unique(): the distinct entries of a column
Unique(rows, Col(_)) == {Col(rows[i]) : i \in 1..Len(rows)}

ResultIds(results) == {results[i].result_id : i \in 1..Len(results)}

\* The dtype polars gives the value column: every value of the column is of
\* one dtype in the databases of the model.
ValueDtype(rows) == IF \A i \in 1..Len(rows) : rows[i].value.dtype = "Int64"
                    THEN "Int64" ELSE "String"

\* sorted(hists.keys()): Python orders no None against an int.
SortedRaises(keys) == None \in keys /\ keys # {None}

Min(S) == CHOOSE x \in S : \A y \in S : x <= y

RECURSIVE SumValues(_, _)
SumValues(rows, i) == IF i > Len(rows) THEN 0 ELSE rows[i].value.v + SumValues(rows, i + 1)

\* Lines 156-168: the statistics of one group; the mean is sum / samples.
Statistics(rows) ==
    LET vals == {rows[i].value.v : i \in 1..Len(rows)}
    IN  [samples |-> Len(rows), sum |-> SumValues(rows, 1),
         max |-> Max(vals), min |-> Min(vals)]

\* Line 131.
plot_width == 65

\* Lines 133-136: bin_edges[j] = j * (max_value / plot_width) for j in
\* range(plot_width + 1).  The edges are kept as exact multiples of
\* 1 / plot_width: the number here is plot_width times the edge.
BinEdges(max_value) == [j \in 0..plot_width |-> j * max_value]

\* Line 143, group["value"].hist(bins=bin_edges): the count of every bucket
\* between two consecutive edges.  A bucket holds the values above its lower
\* edge up to and including its upper edge, the first bucket its lower edge
\* too; a value in no bucket is counted nowhere.
hist(rows, bin_edges) ==
    [b \in 1..plot_width |->
        Cardinality({i \in 1..Len(rows) :
            LET x == rows[i].value.v * plot_width
            IN  /\ x <= bin_edges[b]
                /\ IF b = 1 THEN bin_edges[0] <= x ELSE bin_edges[b - 1] < x})]

\* Lines 109-174: the type checks, the groups and the printing, on the rows
\* df of one test; columns are the Fact columns left in df, dtype the dtype
\* of its value column.  The Facts of the model are scalars, which the check
\* of line 124 lets through.
GroupAndPrint(df, columns, dtype, q) ==
    IF dtype # "Int64" THEN [status |-> "UnsupportedMetricType"]
    ELSE IF q.experiment_fact \notin columns THEN [status |-> "ColumnNotFoundError"]
    ELSE LET Key(row) == row.cells[q.experiment_fact]
             keys == Unique(df, Key)
             groups == [fact_value \in keys |->
                          LET InGroup(row) == Key(row) = fact_value
                          IN  FilterRows(df, InGroup)]
             max_value == Max({df[i].value.v : i \in 1..Len(df)})
             bin_edges == BinEdges(max_value)
             hists == [fact_value \in keys |-> hist(groups[fact_value], bin_edges)]
             plot == [groups |-> groups, max_value |-> max_value,
                      bin_edges |-> bin_edges, hists |-> hists]
         IN  IF SortedRaises(keys) THEN [status |-> "TypeError"] @@ plot
             ELSE [status |-> "ok",
                   stats |-> [fact_value \in keys |-> Statistics(groups[fact_value])]]
                  @@ plot

\* The selection with a test-name check that refuses only the absence of any
\* test name.
SelectAndGroupAnyTests(d, q, results) ==
    LET table == flat_df(d)
        ids == ResultIds(results)
        Selected(row) == row.result_id \in ids
        df1 == FilterRows(table.rows, Selected)
        columns == table.columns \ q.ignore_facts
        IsMetric(row) == row.metric = q.metric
        df2 == FilterRows(df1, IsMetric)
        MetricOf(row) == row.metric
        IsTest(row) == row.test_name = q.test_name[1]
        df3 == IF q.test_name # None THEN FilterRows(df2, IsTest) ELSE df2
        TestOf(row) == row.test_name
        test_names == Unique(df3, TestOf)
    IN  IF Len(df1) = 0 THEN [status |-> "NoMatchingResults"]
        ELSE IF Len(df2) = 0
        THEN [status |-> "UnknownMetric", avail_metrics |-> Unique(df2, MetricOf)]
        ELSE IF Cardinality(test_names) = 0
        THEN [status |-> "MultipleTestsError", test_names |-> test_names]
        ELSE GroupAndPrint(df3, columns, ValueDtype(table.rows), q) @@ [rows |-> df3]

\* Lines 83-107 and on: the rows of the selected Results, the emptiness
\* checks, the test-name check, then the groups.
SelectAndGroup(d, q, results) ==
    LET table == flat_df(d)
        ids == ResultIds(results)
        Selected(row) == row.result_id \in ids
        df1 == FilterRows(table.rows, Selected)
        columns == table.columns \ q.ignore_facts
        IsMetric(row) == row.metric = q.metric
        df2 == FilterRows(df1, IsMetric)
        MetricOf(row) == row.metric
        IsTest(row) == row.test_name = q.test_name[1]
        df3 == IF q.test_name # None THEN FilterRows(df2, IsTest) ELSE df2
        TestOf(row) == row.test_name
        test_names == Unique(df3, TestOf)
    IN  IF Len(df1) = 0 THEN [status |-> "NoMatchingResults"]
        ELSE IF Len(df2) = 0
        THEN [status |-> "UnknownMetric", avail_metrics |-> Unique(df2, MetricOf)]
        ELSE IF Cardinality(test_names) # 1
        THEN [status |-> "MultipleTestsError", test_names |-> test_names]
        ELSE GroupAndPrint(df3, columns, ValueDtype(table.rows), q) @@ [rows |-> df3]

\* compare running the confound check after the emptiness and test-name checks.
compareConfoundLate(d, q, order) ==
    LET extant_facts == unique_facts(d)
        missing_facts == DOMAIN q.facts_eq \ extant_facts
        results == FilterResults(Values(d.results), q.facts_eq, 1)
        confound == ConfoundLoop(results, q, order, 1)
        rest == SelectAndGroup(d, q, results)
    IN  IF missing_facts # {}
        THEN [status |-> "UnknownFact", missing_facts |-> missing_facts,
              available |-> extant_facts]
        ELSE (IF rest.status \in {"NoMatchingResults", "UnknownMetric", "MultipleTestsError"}
              THEN rest
              ELSE IF confound.status # "ok" THEN confound
              ELSE rest) @@ [results |-> results]

\* compare(db, test_name, facts_eq, ignore_facts, experiment_fact, metric);
\* q holds the arguments after db, order the iteration order of extant_facts.
\* The outcome is the exception raised or "ok", with what the message names;
\* results (the list of line 63) and rows (df at line 122) are kept with it.
compare(d, q, order) ==
    LET extant_facts == unique_facts(d)
        missing_facts == DOMAIN q.facts_eq \ extant_facts
        results == FilterResults(Values(d.results), q.facts_eq, 1)
        confound == ConfoundLoop(results, q, order, 1)
    IN  IF missing_facts # {}
        THEN [status |-> "UnknownFact", missing_facts |-> missing_facts,
              available |-> extant_facts]
        ELSE (IF confound.status # "ok" THEN confound
              ELSE SelectAndGroup(d, q, results)) @@ [results |-> results]

----------------------------------------------------------------------------
(* The store on disk and the loads.                                        *)

ChildNamesOf(dire) == {dire.children[i].name : i \in 1..Len(dire.children)}

RECURSIVE SumLen(_, _)
SumLen(calls, k) ==
    IF k > Len(calls) THEN 0
    ELSE Len(calls[k].facts) + Len(calls[k].metrics) + SumLen(calls, k + 1)

RECURSIVE StoreItems(_, _)
StoreItems(children, i) ==
    IF i > Len(children) THEN 0
    ELSE SumLen(children[i].calls, 1) + StoreItems(children, i + 1)

InitLoad ==
    /\ root \in [name : RootNames, children : {<<>>}]
    /\ res = NoCall
    /\ dbres = NoCall
    /\ db = EmptyDict
    /\ call = NoCall

\* A directory or a plain file appears in the store directory.
CreateChild(n, isdir) ==
    /\ Len(root.children) < MaxChildren
    /\ n \notin ChildNamesOf(root)
    /\ root' = [root EXCEPT !.children = Append(@, [name |-> n, isdir |-> isdir, calls |-> <<>>])]
    /\ res' = NoCall
    /\ dbres' = NoCall
    /\ UNCHANGED <<db, call>>

\* An artifact appears under a child directory: one more enricher call has
\* the output c when the directory is read.
WriteArtifact(i, c) ==
    /\ root.children[i].isdir
    /\ StoreItems(root.children, 1) + Len(c.facts) + Len(c.metrics) <= MaxItems
    /\ root' = [root EXCEPT !.children[i].calls = Append(@, c)]
    /\ res' = NoCall
    /\ dbres' = NoCall
    /\ UNCHANGED <<db, call>>

ResultReadDir(i) ==
    /\ res' = [op |-> "Result.read_dir", dire |-> root.children[i],
               out |-> Result_read_dir(root.children[i])]
    /\ UNCHANGED <<root, dbres, db, call>>

DbReadDir ==
    /\ dbres' = [op |-> "Db.read_dir", out |-> Db_read_dir(root)]
    /\ UNCHANGED <<root, res, db, call>>

NextLoad ==
    \/ \E n \in ChildNames, isdir \in BOOLEAN : CreateChild(n, isdir)
    \/ \E i \in 1..Len(root.children), c \in CallOutputs : WriteArtifact(i, c)
    \/ \E i \in 1..Len(root.children) : ResultReadDir(i)
    \/ DbReadDir

SpecLoad == InitLoad /\ [][NextLoad]_vars

----------------------------------------------------------------------------
(* The database in memory and the queries on it.                           *)

MaxResults == 2        \* Results in the database
MaxMetrics == 1        \* Metrics of one Result
MaxKeys == 1           \* keys of the equality filter, and ignored Facts

TestNames == {<<"t1">>, <<"t2">>}
DirNames == {<<"t1", ":", "x">>, <<"t2", ":", "x">>, <<"t1", ":", "y">>}
MetricValues == {IntVal(1), StrVal}

Metrics == [name : MetricNames, value : MetricValues, unit : {None}]

\* The dicts from some of the names in S to values in V.
Dicts(S, V, n) == UNION {[K -> V] : K \in {K \in SUBSET S : Cardinality(K) <= n}}

\* A facts dict as Result.read_dir builds it: each Fact under its own name.
FactDicts == {[n \in DOMAIN f |-> [name |-> n, value |-> f[n], unit |-> None]] :
                 f \in Dicts(FactNames, FactValues, Cardinality(FactNames))}

Payloads == [facts : FactDicts, metrics : SeqsUpTo(Metrics, MaxMetrics)]

DbOf(f) == [results |-> [n \in DOMAIN f |-> NewResult(n, f[n].facts, f[n].metrics).result],
            root_dir |-> <<"results">>]

\* Every value of the value column has one dtype.
OneDtype(d) ==
    \A r1 \in DOMAIN d.results, r2 \in DOMAIN d.results :
        \A i \in 1..Len(d.results[r1].metrics), j \in 1..Len(d.results[r2].metrics) :
            d.results[r1].metrics[i].value.dtype = d.results[r2].metrics[j].value.dtype

\* The arguments of compare.  The ignored Facts are Facts of the database:
\* DataFrame.drop is given columns of the table.
Queries(d) ==
    [test_name : {None} \cup {Some(t) : t \in TestNames},
     facts_eq : Dicts(FactNames, FactValues, MaxKeys),
     ignore_facts : {K \in SUBSET unique_facts(d) : Cardinality(K) <= MaxKeys},
     experiment_fact : FactNames,
     metric : MetricNames]

Orders(S) == {o \in [1..Cardinality(S) -> S] : \A i, j \in 1..Cardinality(S) : o[i] = o[j] => i = j}

InitQuery ==
    /\ root = [name |-> <<"results">>, children |-> <<>>]
    /\ res = NoCall
    /\ dbres = NoCall
    /\ \E D \in SUBSET DirNames :
          /\ Cardinality(D) <= MaxResults
          /\ \E f \in [D -> Payloads] : db = DbOf(f)
    /\ OneDtype(db)
    /\ call = NoCall

\* flat_df and compare leave db as it is, so every call starts from the Db
\* of Init: one call per behaviour reaches every call there is.
FlatDf ==
    /\ call = NoCall
    /\ call' = [op |-> "flat_df", out |-> flat_df(db)]
    /\ UNCHANGED <<root, res, dbres, db>>

Compare(q, order) ==
    /\ call = NoCall
    /\ call' = [op |-> "compare", q |-> q, out |-> compare(db, q, order)]
    /\ UNCHANGED <<root, res, dbres, db>>

NextQuery ==
    \/ FlatDf
    \/ \E q \in Queries(db), order \in Orders(unique_facts(db)) : Compare(q, order)

SpecQuery == InitQuery /\ [][NextQuery]_vars

----------------------------------------------------------------------------
(* Comparisons of Results of one Fact with samples of one metric, whose     *)
(* values are negative, zero and positive.                                  *)

HistValues == {-1, 0, 2}

HistMetrics == [name : {"m"}, value : {IntVal(v) : v \in HistValues}, unit : {None}]

HistFacts == {[n \in {"f"} |-> [name |-> n, value |-> v, unit |-> None]] : v \in FactValues}

HistPayloads == [facts : HistFacts, metrics : SeqsUpTo(HistMetrics, MaxMetrics)]

HistQueries ==
    [test_name : {None} \cup {Some(t) : t \in TestNames},
     facts_eq : {EmptyDict},
     ignore_facts : {{}},
     experiment_fact : {"f"},
     metric : {"m"}]

InitHist ==
    /\ root = [name |-> <<"results">>, children |-> <<>>]
    /\ res = NoCall
    /\ dbres = NoCall
    /\ \E D \in SUBSET DirNames :
          /\ Cardinality(D) <= MaxResults
          /\ \E f \in [D -> HistPayloads] : db = DbOf(f)
    /\ call = NoCall

NextHist ==
    \E q \in HistQueries, order \in Orders(unique_facts(db)) : Compare(q, order)

SpecHist == InitHist /\ [][NextHist]_vars

----------------------------------------------------------------------------
(* cli.py: import_result, on a store that starts empty.                    *)

MaxPaths == 2          \* artifact paths given to one import
MaxImports == 2        \* import_result calls

ImportTests == {<<"t1">>}

\* An artifact path given on the command line: a file, or a directory with
\* the files input_path.walk() finds in it, in the order it finds them.
File(name, content) == [is_dir |-> FALSE, name |-> name, content |-> content]
Dir(name, walk) == [is_dir |-> TRUE, name |-> name, walk |-> walk]

Inputs ==
    {File("a", 1), File("a", 2), File("b", 1),
     Dir("d", <<[relpath |-> <<"a">>, content |-> 2],
                [relpath |-> <<"s", "b">>, content |-> 1]>>)}

\* Lines 188-196: the files with their eventual paths relative to artifacts/.
RECURSIVE iter_artifacts(_, _)
iter_artifacts(artifact_paths, k) ==
    IF k > Len(artifact_paths) THEN <<>>
    ELSE LET input_path == artifact_paths[k]
         IN  (IF input_path.is_dir THEN input_path.walk
              ELSE <<[relpath |-> <<input_path.name>>, content |-> input_path.content]>>)
             \o iter_artifacts(artifact_paths, k + 1)

\* SHA-256, taken to be free of collisions: the digest stands for the data.
Sha256(data) == <<"sha256", data>>

\* Lines 199-205: the hash of the digests of the files, in the order of
\* iter_artifacts; the 12 hex digits kept of it are taken to be free of
\* collisions too.
ArtifactsHash(artifacts) == Sha256([i \in 1..Len(artifacts) |-> Sha256(artifacts[i].content)])

\* Lines 211-219: the files of the new Result directory after the copies, a
\* later copy to a path replacing an earlier one.
RECURSIVE CopyLoop(_, _, _)
CopyLoop(files, artifacts, i) ==
    IF i > Len(artifacts) THEN files
    ELSE LET artifact_path == <<"artifacts">> \o artifacts[i].relpath
             rest == [p \in DOMAIN files \ {artifact_path} |-> files[p]]
         IN  CopyLoop(rest @@ (artifact_path :> artifacts[i].content), artifacts, i + 1)

\* import_result with os.makedirs(result_dir, exist_ok=True) for os.mkdir.
import_resultExistOk(d, store, test_name, artifact_paths) ==
    LET artifacts == iter_artifacts(artifact_paths, 1)
        result_dir == test_name \o <<":", ArtifactsHash(artifacts)>>
        NotIt(child) == child.name # result_dir
        It(child) == child.name = result_dir
        old == SelectSeq(store.children, It)
        files == IF old = <<>> THEN EmptyDict ELSE old[1].files
    IN  [status |-> "ok", result_dir |-> result_dir, db |-> d,
         store |-> [store EXCEPT !.children =
                       Append(SelectSeq(@, NotIt),
                              [name |-> result_dir, isdir |-> TRUE,
                               files |-> CopyLoop(files, artifacts, 1)])]]

\* import_result(db, test_name, artifact_paths) on the store directory
\* db.root_dir: the outcome, the store and the Db it leaves.  os.mkdir
\* raises FileExistsError when the Result directory is there.
import_result(d, store, test_name, artifact_paths) ==
    LET artifacts == iter_artifacts(artifact_paths, 1)
        result_dir == test_name \o <<":", ArtifactsHash(artifacts)>>
    IN  IF result_dir \in ChildNamesOf(store)
        THEN [status |-> "FileExistsError", result_dir |-> result_dir,
              db |-> d, store |-> store]
        ELSE [status |-> "ok", result_dir |-> result_dir, db |-> d,
              store |-> [store EXCEPT !.children =
                            Append(@, [name |-> result_dir, isdir |-> TRUE,
                                       files |-> CopyLoop(EmptyDict, artifacts, 1)])]]

\* The imports made so far, and those of them that succeeded.
ImportsMade == IF call = NoCall THEN 0 ELSE call.n
Imported == IF call = NoCall THEN {} ELSE call.imported

InitImport ==
    /\ root = [name |-> <<"results">>, children |-> <<>>]
    /\ res = NoCall
    /\ dbres = NoCall
    /\ db = [results |-> EmptyDict, root_dir |-> <<"results">>]
    /\ call = NoCall

\* One run of import_result; call keeps the arguments, the outcome, the
\* store before the call and the imports that had succeeded before it.
ImportResult(test_name, artifact_paths) ==
    LET out == import_result(db, root, test_name, artifact_paths)
        this == [test_name |-> test_name, artifact_paths |-> artifact_paths]
    IN  /\ ImportsMade < MaxImports
        /\ root' = out.store
        /\ db' = out.db
        /\ call' = [op |-> "import_result", test_name |-> test_name,
                    artifact_paths |-> artifact_paths,
                    out |-> [status |-> out.status, result_dir |-> out.result_dir],
                    before |-> root,
                    earlier |-> Imported,
                    imported |-> IF out.status = "ok" THEN Imported \cup {this} ELSE Imported,
                    n |-> ImportsMade + 1]
        /\ UNCHANGED <<res, dbres>>

NextImport ==
    \E test_name \in ImportTests, artifact_paths \in SeqsUpTo(Inputs, MaxPaths) :
        ImportResult(test_name, artifact_paths)

SpecImport == InitImport /\ [][NextImport]_vars

----------------------------------------------------------------------------
(* enrichers.py: enrich_from_bpftrace_logs, on one artifact file.          *)

MaxLogLen == 7         \* characters of the log file

\* The log is a sequence of characters, "@total_exits:" standing for the
\* thirteen characters of the key.
KEY == "@total_exits:"
Digits == {"0", "7"}
LogChars == {KEY, " ", "\n"} \cup Digits

\* The paths of the artifact, as sequences of components.
BPFTRACE_LOG == "bpftrace_asi_exits.log"
ArtifactPaths ==
    {<<"artifacts", BPFTRACE_LOG>>, <<"artifacts", "other.log">>, <<BPFTRACE_LOG>>}

\* fnmatch(str(artifact.path), "*/bpftrace_asi_exits.log"): the path ends
\* with a separator and the name.
MatchesGlob(path) == Len(path) >= 2 /\ path[Len(path)] = BPFTRACE_LOG

\* str.splitlines(), from character i on, cur being the line read so far.
RECURSIVE splitlines(_, _, _)
splitlines(content, i, cur) ==
    IF i > Len(content) THEN (IF cur = <<>> THEN <<>> ELSE <<cur>>)
    ELSE IF content[i] = "\n" THEN <<cur>> \o splitlines(content, i + 1, <<>>)
    ELSE splitlines(content, i + 1, Append(cur, content[i]))

\* The end of the longest run of characters of S in line that starts at i
\* (i - 1 when there is none).
RECURSIVE RunEnd(_, _, _)
RunEnd(line, i, S) ==
    IF i <= Len(line) /\ line[i] \in S THEN RunEnd(line, i + 1, S) ELSE i - 1

DigitValue(c) == IF c = "0" THEN 0 ELSE 7

\* int() of a run of digits.
RECURSIVE int(_, _)
int(digits, n) ==
    IF n = 0 THEN 0 ELSE 10 * int(digits, n - 1) + DigitValue(digits[n])

\* re.search(r"@total_exits:\s+(\d+)", line) from position i on: None, or
\* group 1 of the leftmost match.
RECURSIVE re_search(_, _)
re_search(line, i) ==
    IF i > Len(line) THEN None
    ELSE LET s == RunEnd(line, i + 1, {" "})
             d == RunEnd(line, s + 1, Digits)
         IN  IF line[i] = KEY /\ s >= i + 1 /\ d >= s + 1
             THEN Some(SubSeq(line, s + 1, d))
             ELSE re_search(line, i + 1)

\* Lines 250-255: exits_metric after the lines from the k-th on.
RECURSIVE LinesLoop(_, _, _)
LinesLoop(lines, k, exits_metric) ==
    IF k > Len(lines) THEN exits_metric
    ELSE LET match == re_search(lines[k], 1)
         IN  IF match # None
             THEN LinesLoop(lines, k + 1,
                     Some([name |-> "asi_exits",
                           value |-> IntVal(int(match[1], Len(match[1]))),
                           unit |-> None]))
             ELSE LinesLoop(lines, k + 1, exits_metric)

\* LinesLoop keeping the first match.
RECURSIVE LinesLoopFirst(_, _, _)
LinesLoopFirst(lines, k, exits_metric) ==
    IF k > Len(lines) THEN exits_metric
    ELSE LET match == re_search(lines[k], 1)
         IN  IF match # None /\ exits_metric = None
             THEN LinesLoopFirst(lines, k + 1,
                     Some([name |-> "asi_exits",
                           value |-> IntVal(int(match[1], Len(match[1]))),
                           unit |-> None]))
             ELSE LinesLoopFirst(lines, k + 1, exits_metric)

\* enrich_from_bpftrace_logs with the first matching line winning.
enrich_from_bpftrace_logsFirst(artifact) ==
    IF ~MatchesGlob(artifact.path) THEN [facts |-> <<>>, metrics |-> <<>>]
    ELSE LET exits_metric == LinesLoopFirst(splitlines(artifact.content, 1, <<>>), 1, None)
         IN  IF exits_metric # None
             THEN [facts |-> <<[name |-> "instrumented", value |-> TRUE, unit |-> None]>>,
                   metrics |-> <<exits_metric[1]>>]
             ELSE [facts |-> <<>>, metrics |-> <<>>]

\* enrich_from_bpftrace_logs(artifact): the Facts and the Metrics returned.
\* A Metric object is true whatever its value.
enrich_from_bpftrace_logs(artifact) ==
    IF ~MatchesGlob(artifact.path) THEN [facts |-> <<>>, metrics |-> <<>>]
    ELSE LET exits_metric == LinesLoop(splitlines(artifact.content, 1, <<>>), 1, None)
         IN  IF exits_metric # None
             THEN [facts |-> <<[name |-> "instrumented", value |-> TRUE, unit |-> None]>>,
                   metrics |-> <<exits_metric[1]>>]
             ELSE [facts |-> <<>>, metrics |-> <<>>]

\* root is the artifact file on disk.
InitEnrich ==
    /\ root \in [path : ArtifactPaths, content : SeqsUpTo(LogChars, MaxLogLen)]
    /\ res = NoCall
    /\ dbres = NoCall
    /\ db = EmptyDict
    /\ call = NoCall

EnrichFromBpftraceLogs ==
    /\ res = NoCall
    /\ res' = [op |-> "enrich_from_bpftrace_logs", artifact |-> root,
               out |-> enrich_from_bpftrace_logs(root)]
    /\ UNCHANGED <<root, dbres, db, call>>

NextEnrich == EnrichFromBpftraceLogs

SpecEnrich == InitEnrich /\ [][NextEnrich]_vars

----------------------------------------------------------------------------
(* What an enrichment pass produced, read off the enricher outputs.        *)

\* How often the calls return a Fact named n.
RECURSIVE FactCount(_, _, _)
FactCount(calls, n, k) ==
    IF k > Len(calls) THEN 0
    ELSE Cardinality({j \in 1..Len(calls[k].facts) : calls[k].facts[j].name = n})
         + FactCount(calls, n, k + 1)

\* All Metrics the calls return, in the order of the calls.
RECURSIVE AllMetrics(_, _)
AllMetrics(calls, k) ==
    IF k > Len(calls) THEN <<>> ELSE calls[k].metrics \o AllMetrics(calls, k + 1)

\* The names of the Facts returned by the calls 1..k.
FactNamesUpTo(calls, k) ==
    {calls[i].facts[j].name : <<i, j>> \in
        {ij \in (1..k) \X (1..MaxItems) : ij[2] <= Len(calls[ij[1]].facts)}}

\* The names of the Metrics returned by the calls 1..k.
MetricNamesUpTo(calls, k) ==
    {calls[i].metrics[j].name : <<i, j>> \in
        {ij \in (1..k) \X (1..MaxItems) : ij[2] <= Len(calls[ij[1]].metrics)}}

\* Some Fact name is returned more than once.
FactTwice(calls) == \E n \in FactNames : FactCount(calls, n, 1) >= 2

\* Some Metric is returned when a Fact of its name has been returned (by an
\* earlier call, or by the same call, whose Facts are taken first).
MetricAfterFact(calls) ==
    \E k \in 1..Len(calls) : \E j \in 1..Len(calls[k].metrics) :
        calls[k].metrics[j].name \in FactNamesUpTo(calls, k)

\* Some Fact is returned when a Metric of its name has been returned by an
\* earlier call.
FactAfterMetric(calls) ==
    \E k \in 1..Len(calls) : \E j \in 1..Len(calls[k].facts) :
        calls[k].facts[j].name \in MetricNamesUpTo(calls, k - 1)

MetricNamesOf(metrics) == {metrics[i].name : i \in 1..Len(metrics)}

\* The last Result.read_dir call was made on a directory.
ReadADir == res.op = "Result.read_dir" /\ res.dire.isdir

\* C4: Result.read_dir on a directory either fails or returns a Result whose
\* Facts are exactly the Fact names returned once, none being returned more
\* often; when a Fact name is returned twice the load is rejected with the
\* duplicate-attribute error and no Result is returned.
C4_FactNamesUnique ==
    ReadADir =>
        LET calls == res.dire.calls
        IN  /\ FactTwice(calls) => res.out.status = "DuplicateAttribute"
            /\ res.out.status = "ok" =>
                  \A n \in FactNames :
                      /\ FactCount(calls, n, 1) <= 1
                      /\ n \in DOMAIN res.out.result.facts <=> FactCount(calls, n, 1) = 1

\* A load rejected because one enricher call returned the same Fact name twice.
C4_Witness ==
    /\ ReadADir
    /\ Len(res.dire.calls) = 1
    /\ FactTwice(res.dire.calls)
    /\ res.out.status = "DuplicateAttribute"
    /\ res.out.site = "DuplicateFact"

\* C5: a Fact whose name was already produced, as a Fact or as a Metric,
\* fails the load with the duplicate-attribute error, so that no loaded
\* Result holds a Fact and a Metric of the same name.
C5_CrossKindCollision ==
    ReadADir /\ Len(rsplit(res.dire.name)) = 2 =>
        LET calls == res.dire.calls
        IN  /\ FactTwice(calls) \/ FactAfterMetric(calls)
                  => res.out.status = "DuplicateAttribute"
            /\ res.out.status = "ok" =>
                  DOMAIN res.out.result.facts \cap MetricNamesOf(res.out.result.metrics) = {}

\* C6: a Metric is refused only when a Fact of its name was produced before
\* it; Metrics sharing a name are no error, and a successful load keeps
\* every Metric returned, in order, none dropped or merged.
C6_MetricsAreSamples ==
    ReadADir =>
        LET calls == res.dire.calls
        IN  /\ res.out.status = "DuplicateAttribute"
                  <=> FactTwice(calls) \/ MetricAfterFact(calls)
            /\ res.out.status = "DuplicateAttribute" /\ res.out.site = "MetricShadowsFact"
                  => MetricAfterFact(calls)
            /\ res.out.status = "ok" =>
                  /\ res.out.result.metrics = AllMetrics(calls, 1)
                  /\ Len(res.out.result.metrics) = Len(AllMetrics(calls, 1))

\* A successful load with two Metrics of one name, returned by two calls.
C6_Witness ==
    /\ ReadADir
    /\ res.out.status = "ok"
    /\ Len(res.dire.calls) = 2
    /\ Len(res.out.result.metrics) = 2
    /\ res.out.result.metrics[1].name = res.out.result.metrics[2].name

\* The children of the store are Result directories that load, named
\* <test_name>:<result_id>, and the file results.json.
StoreWithResultsJson ==
    /\ \E i \in 1..Len(root.children) :
          root.children[i].name = RESULTS_JSON /\ ~root.children[i].isdir
    /\ \E i \in 1..Len(root.children) : root.children[i].name # RESULTS_JSON
    /\ \A i \in 1..Len(root.children) :
          root.children[i].name # RESULTS_JSON =>
              /\ root.children[i].isdir
              /\ Result_read_dir(root.children[i]).status = "ok"

ResultDirNames(dire) ==
    {dire.children[i].name : i \in {j \in 1..Len(dire.children) : dire.children[j].isdir}}

\* C7: Db.read_dir of a store holding Result directories and the file
\* results.json succeeds with one entry per Result directory and none for
\* results.json.
C7_SkipsResultsJson ==
    dbres.op = "Db.read_dir" /\ StoreWithResultsJson =>
        /\ dbres.out.status = "ok"
        /\ DOMAIN dbres.out.results = ResultDirNames(root)

----------------------------------------------------------------------------
(* What a query is about, read off the Db and the arguments.               *)

\* The Fact names of the database.
UniqueFacts(d) == UNION {DOMAIN d.results[n].facts : n \in DOMAIN d.results}

\* The Results that pass the equality filter: each filtered Fact they have
\* has the required value.
Passing(d, facts_eq) ==
    {n \in DOMAIN d.results :
        \A k \in DOMAIN facts_eq :
            k \in DOMAIN d.results[n].facts => d.results[n].facts[k].value = facts_eq[k]}

\* The values a Fact takes across the Results S, absence being the value null.
ValuesAcross(d, S, fact) == {Cell(d.results[n], fact) : n \in S}

\* The Facts that compare must find equal across the filtered Results and
\* that are not.
Confounds(d, q) ==
    {fact \in UniqueFacts(d) \ ({q.experiment_fact} \cup DOMAIN q.facts_eq \cup q.ignore_facts) :
        Cardinality(ValuesAcross(d, Passing(d, q.facts_eq), fact)) > 1}

CompareCalled == call.op = "compare"

\* A filter key is a Fact of no Result.
UnknownKey(d, q) == ~ (DOMAIN q.facts_eq \subseteq UniqueFacts(d))

\* Two Results whose Facts are f and g and differ in both.
DifferInFAndG(d) ==
    /\ Cardinality(DOMAIN d.results) = 2
    /\ \A n \in DOMAIN d.results : DOMAIN d.results[n].facts = {"f", "g"}
    /\ \E n1, n2 \in DOMAIN d.results :
          /\ d.results[n1].facts["f"].value # d.results[n2].facts["f"].value
          /\ d.results[n1].facts["g"].value # d.results[n2].facts["g"].value

\* C1: with the filter keys known, compare raises the unresolved-confound
\* error, naming a confounding Fact and the values it takes, exactly when
\* some Fact other than the experiment Fact, the filter keys and the ignored
\* Facts takes more than one value across the Results that pass the equality
\* filter, a Result lacking the Fact counting as the value null.  For two
\* Results differing only in f and g, comparing on f fails on g while g is
\* not ignored, and passes the confound check once g is ignored.
C1_ConfoundCheck ==
    CompareCalled /\ ~UnknownKey(db, call.q) =>
        /\ call.out.status = "UnresolvedConfound" <=> Confounds(db, call.q) # {}
        /\ call.out.status = "UnresolvedConfound" =>
              /\ call.out.fact \in Confounds(db, call.q)
              /\ call.out.vals =
                    ValuesAcross(db, Passing(db, call.q.facts_eq), call.out.fact)
        /\ DifferInFAndG(db) /\ call.q.experiment_fact = "f" /\ call.q.facts_eq = EmptyDict
              => IF "g" \in call.q.ignore_facts
                 THEN call.out.status # "UnresolvedConfound"
                 ELSE call.out.status = "UnresolvedConfound" /\ call.out.fact = "g"

\* A comparison refused because a Fact is there on one Result and absent on
\* another.
C1_Witness ==
    /\ CompareCalled
    /\ call.out.status = "UnresolvedConfound"
    /\ None \in call.out.vals
    /\ Cardinality(call.out.vals) = 2

\* The Results that have a row among rows.
Contributing(d, rows) ==
    {n \in DOMAIN d.results :
        \E i \in 1..Len(rows) :
            /\ rows[i].result_id = d.results[n].result_id
            /\ rows[i].test_name = d.results[n].test_name}

\* C2: whenever compare passes its validation and computes groups, every
\* Fact other than the experiment Fact and the ignored Facts, those pinned
\* by the equality filter included, has one single value (absence counting
\* as a value) on the Results that contribute rows to the groups.
C2_OnlyExperimentVaries ==
    CompareCalled /\ call.out.status = "ok" =>
        \A fact \in UniqueFacts(db) \ ({call.q.experiment_fact} \cup call.q.ignore_facts) :
            Cardinality(ValuesAcross(db, Contributing(db, call.out.rows), fact)) <= 1

ResultNames(results) == {results[i].result_dirname : i \in 1..Len(results)}

\* C3: the Results compare keeps are exactly those that, for every filter
\* key they have as a Fact, have the required value: a Result with another
\* value is dropped, a Result without the Fact is kept.
C3_EqualityFilter ==
    CompareCalled /\ call.out.status # "UnknownFact" =>
        /\ ResultNames(call.out.results) = Passing(db, call.q.facts_eq)
        /\ \A n \in DOMAIN db.results :
              /\ DOMAIN call.q.facts_eq \cap DOMAIN db.results[n].facts = {}
                    => n \in ResultNames(call.out.results)
              /\ \A k \in DOMAIN call.q.facts_eq :
                    k \in DOMAIN db.results[n].facts
                    /\ db.results[n].facts[k].value # call.q.facts_eq[k]
                    => n \notin ResultNames(call.out.results)

\* A filter that drops a Result with another value and keeps one that lacks
\* the Fact.
C3_Witness ==
    /\ CompareCalled
    /\ call.out.status # "UnknownFact"
    /\ \E k \in DOMAIN call.q.facts_eq : \E n1, n2 \in DOMAIN db.results :
          /\ k \notin DOMAIN db.results[n1].facts
          /\ n1 \in ResultNames(call.out.results)
          /\ k \in DOMAIN db.results[n2].facts
          /\ db.results[n2].facts[k].value # call.q.facts_eq[k]
          /\ n2 \notin ResultNames(call.out.results)

RECURSIVE SumMetrics(_, _)
SumMetrics(d, S) ==
    IF S = {} THEN 0
    ELSE LET n == CHOOSE x \in S : TRUE
         IN  Len(d.results[n].metrics) + SumMetrics(d, S \ {n})

\* The rows of the table that come from Result r.
RowsOf(rows, r) ==
    LET FromR(row) == row.result_id = r.result_id /\ row.test_name = r.test_name
    IN  SelectSeq(rows, FromR)

\* C8: flat_df has one row per Result and Metric, as many rows as the
\* Results have Metrics together; each row of a Result carries one of its
\* Metrics, in order, and in every Fact column of unique_facts() the value
\* of the Result's Fact, or null where the Result has no such Fact.
C8_FlatDf ==
    call.op = "flat_df" =>
        LET rows == call.out.rows
        IN  /\ Len(rows) = SumMetrics(db, DOMAIN db.results)
            /\ call.out.columns = UniqueFacts(db)
            /\ \A n \in DOMAIN db.results :
                  LET r == db.results[n]
                      mine == RowsOf(rows, r)
                  IN  /\ Len(mine) = Len(r.metrics)
                      /\ \A i \in 1..Len(mine) :
                            /\ mine[i].metric = r.metrics[i].name
                            /\ mine[i].value = r.metrics[i].value
                            /\ DOMAIN mine[i].cells = UniqueFacts(db)
                            /\ \A f \in UniqueFacts(db) :
                                  mine[i].cells[f] =
                                      IF f \in DOMAIN r.facts THEN Some(r.facts[f].value)
                                      ELSE None

\* A table of two rows from two Results, with a null cell in one row where
\* the other row has a value.
C8_Witness ==
    /\ call.op = "flat_df"
    /\ Len(call.out.rows) = 2
    /\ call.out.rows[1].result_id # call.out.rows[2].result_id
    /\ \E f \in call.out.columns :
          call.out.rows[1].cells[f] = None /\ call.out.rows[2].cells[f] # None

\* The Results whose rows line 85 selects: those with the result_id of a
\* Result that passes the equality filter.
Selected(d, q) ==
    {n \in DOMAIN d.results :
        \E m \in Passing(d, q.facts_eq) : d.results[n].result_id = d.results[m].result_id}

MetricNamesIn(d, S) ==
    UNION {MetricNamesOf(d.results[n].metrics) : n \in S}

\* The test names of the selected rows of the target metric.
TestsOfMetric(d, q) ==
    {d.results[n].test_name :
        n \in {m \in Selected(d, q) : q.metric \in MetricNamesOf(d.results[m].metrics)}}

\* ... and of those, the ones the test-name constraint leaves.
TestsLeft(d, q) ==
    IF q.test_name = None THEN TestsOfMetric(d, q)
    ELSE TestsOfMetric(d, q) \cap {q.test_name[1]}

\* The stages of the validation that the query violates.
Violates1(d, q) == UnknownKey(d, q)
Violates3(d, q) == Confounds(d, q) # {}
Violates4Rows(d, q) == MetricNamesIn(d, Selected(d, q)) = {}
Violates4Metric(d, q) == q.metric \notin MetricNamesIn(d, Selected(d, q))
Violates4Test(d, q) == TestsLeft(d, q) = {}
Violates5(d, q) == Cardinality(TestsLeft(d, q)) > 1
Violates6(d, q) ==
    \E n \in DOMAIN d.results : \E i \in 1..Len(d.results[n].metrics) :
        d.results[n].metrics[i].value.dtype \notin {"Int64", "Float64"}

\* The error of the earliest stage the query violates.
EarliestError(d, q) ==
    IF Violates1(d, q) THEN "UnknownFact"
    ELSE IF Violates3(d, q) THEN "UnresolvedConfound"
    ELSE IF Violates4Rows(d, q) THEN "NoMatchingResults"
    ELSE IF Violates4Metric(d, q) THEN "UnknownMetric"
    ELSE IF Violates4Test(d, q) \/ Violates5(d, q) THEN "MultipleTestsError"
    ELSE IF Violates6(d, q) THEN "UnsupportedMetricType"
    ELSE "none"

ValidationErrors == {"UnknownFact", "UnresolvedConfound", "NoMatchingResults",
                     "UnknownMetric", "MultipleTestsError", "UnsupportedMetricType"}

\* C9: compare raises the error of the earliest stage the query violates,
\* the stages being the filter keys, the confound check (on the filtered
\* Results), the emptiness checks, the test-name check (which also reports
\* a test-name constraint that matches no row) and the type check; it raises
\* none of these errors when no stage is violated.
C9_ValidationOrder ==
    CompareCalled =>
        IF EarliestError(db, call.q) = "none"
        THEN call.out.status \notin ValidationErrors
        ELSE call.out.status = EarliestError(db, call.q)

\* A query with an unknown filter key, an unresolved confound and an unknown
\* metric: the unknown key is what is reported.
C9_Witness ==
    /\ CompareCalled
    /\ Violates1(db, call.q)
    /\ Violates3(db, call.q)
    /\ ~Violates4Rows(db, call.q)
    /\ Violates4Metric(db, call.q)
    /\ call.out.status = "UnknownFact"

\* C10: after the equality filter the candidate rows, the rows of the target
\* metric and the rows of the test-name constraint must each be non-empty;
\* the error for a metric no selected row carries names the metrics the
\* selected Results do have, the error for a test name no row has names the
\* test names there are.
C10_EmptinessErrors ==
    CompareCalled /\ ~Violates1(db, call.q) /\ ~Violates3(db, call.q) =>
        /\ Violates4Rows(db, call.q) => call.out.status = "NoMatchingResults"
        /\ ~Violates4Rows(db, call.q) /\ Violates4Metric(db, call.q) =>
              /\ call.out.status = "UnknownMetric"
              /\ call.out.avail_metrics = MetricNamesIn(db, Selected(db, call.q))
        /\ ~Violates4Metric(db, call.q) /\ Violates4Test(db, call.q) =>
              /\ call.out.status \in ValidationErrors
              /\ call.out.test_names = TestsOfMetric(db, call.q)

\* The query passes the stages before the test-name check.
ReachesTestCheck(d, q) ==
    /\ ~Violates1(d, q)
    /\ ~Violates3(d, q)
    /\ ~Violates4Rows(d, q)
    /\ ~Violates4Metric(d, q)

TestNamesOf(rows) == {rows[i].test_name : i \in 1..Len(rows)}

\* C11: compare computes groups only when the rows of the target metric that
\* the test-name constraint leaves carry exactly one test name; when they
\* carry two or more, a query that got as far as the test-name check is
\* refused with MultipleTestsError, naming them, and no group is computed.
C11_SingleTestName ==
    CompareCalled =>
        /\ "groups" \in DOMAIN call.out =>
              /\ Cardinality(TestsLeft(db, call.q)) = 1
              /\ TestNamesOf(call.out.rows) = TestsLeft(db, call.q)
        /\ ReachesTestCheck(db, call.q) /\ Cardinality(TestsLeft(db, call.q)) >= 2 =>
              /\ call.out.status = "MultipleTestsError"
              /\ call.out.test_names = TestsLeft(db, call.q)
              /\ "groups" \notin DOMAIN call.out

\* A comparison without test-name constraint refused because the rows of the
\* metric come from two tests.
C11_Witness ==
    /\ CompareCalled
    /\ call.q.test_name = None
    /\ ReachesTestCheck(db, call.q)
    /\ Cardinality(TestsLeft(db, call.q)) = 2
    /\ call.out.status = "MultipleTestsError"

\* C18: every row that compare takes into the metric filter, the groups and
\* the statistics comes from a Result that passed the equality filter, also
\* when Results of two tests have one result_id.
C18_RowsOfFilteredResults ==
    CompareCalled /\ call.out.status = "ok" =>
        Contributing(db, call.out.rows) \subseteq Passing(db, call.q.facts_eq)

\* The query passes the whole validation and its experiment Fact is a column
\* of the table.
Validated(d, q) ==
    /\ EarliestError(d, q) = "none"
    /\ q.experiment_fact \in UniqueFacts(d) \ q.ignore_facts

\* The Results that pass the equality filter and the test-name constraint.
FilteredResults(d, q) ==
    {n \in Passing(d, q.facts_eq) :
        q.test_name = None \/ d.results[n].test_name = q.test_name[1]}

\* The samples of the metric on Result r, as indices into its Metrics.
SamplesOf(r, metric) == {i \in 1..Len(r.metrics) : r.metrics[i].name = metric}

RECURSIVE CountSamples(_, _, _)
CountSamples(d, S, metric) ==
    IF S = {} THEN 0
    ELSE LET n == CHOOSE x \in S : TRUE
         IN  Cardinality(SamplesOf(d.results[n], metric)) + CountSamples(d, S \ {n}, metric)

SampleValues(d, S, metric) ==
    UNION {{d.results[n].metrics[i].value.v : i \in SamplesOf(d.results[n], metric)} : n \in S}

\* The filtered Results with samples of the metric whose experiment Fact has
\* the value key (null where they have no such Fact).
ResultsWithValue(d, q, key) ==
    {n \in FilteredResults(d, q) :
        /\ SamplesOf(d.results[n], q.metric) # {}
        /\ Cell(d.results[n], q.experiment_fact) = key}

\* Two Results that differ only in the value of the one Fact they have, each
\* with as many samples of the metric as a Result holds, compared on that
\* Fact without a filter.
TwoModes(d, q) ==
    /\ q.facts_eq = EmptyDict
    /\ Cardinality(DOMAIN d.results) = 2
    /\ \A n \in DOMAIN d.results :
          /\ DOMAIN d.results[n].facts = {q.experiment_fact}
          /\ d.results[n].test_name = <<"t1">>
          /\ Cardinality(SamplesOf(d.results[n], q.metric)) = MaxMetrics
    /\ \E n1, n2 \in DOMAIN d.results :
          d.results[n1].facts[q.experiment_fact].value
              # d.results[n2].facts[q.experiment_fact].value

\* C12: for a validated query compare reports one group per value of the
\* experiment Fact, every row being in the group of its value and in no
\* other; the sample count of a group is the number of samples of the metric
\* on the filtered Results that have the value, its min and max the smallest
\* and the largest of them.  Two Results differing only in the experiment
\* Fact give two groups, each with the samples of one Result.
C12_GroupStatistics ==
    CompareCalled /\ Validated(db, call.q) =>
        LET q == call.q
            keys == {Cell(db.results[n], q.experiment_fact) :
                        n \in {m \in FilteredResults(db, q) :
                                  SamplesOf(db.results[m], q.metric) # {}}}
        IN  /\ call.out.status = "ok"
            /\ DOMAIN call.out.groups = keys
            /\ DOMAIN call.out.stats = keys
            /\ \A i \in 1..Len(call.out.rows) :
                  \A key \in keys :
                      Cardinality({j \in 1..Len(call.out.groups[key]) :
                                     call.out.groups[key][j] = call.out.rows[i]}) > 0
                          <=> call.out.rows[i].cells[q.experiment_fact] = key
            /\ \A key \in keys :
                  LET S == ResultsWithValue(db, q, key)
                  IN  /\ call.out.stats[key].samples = CountSamples(db, S, q.metric)
                      /\ call.out.stats[key].min = Min(SampleValues(db, S, q.metric))
                      /\ call.out.stats[key].max = Max(SampleValues(db, S, q.metric))
            /\ TwoModes(db, q) =>
                  /\ Cardinality(keys) = 2
                  /\ \A key \in keys : call.out.stats[key].samples = MaxMetrics

RECURSIVE SumCounts(_, _)
SumCounts(counts, b) == IF b > plot_width THEN 0 ELSE counts[b] + SumCounts(counts, b + 1)

\* C13: whenever compare computes histograms, of samples that may be zero or
\* negative, the bucket edges are plot_width + 1 points, never decreasing,
\* the first 0 and the last the largest sample of all groups, and the bucket
\* counts of every group add up to the number of samples of the group.
\* (Edges are in units of 1 / plot_width.)
C13_HistogramInvariant ==
    CompareCalled /\ "bin_edges" \in DOMAIN call.out =>
        LET edges == call.out.bin_edges
            rows == call.out.rows
            global_max == Max({rows[i].value.v : i \in 1..Len(rows)})
        IN  /\ DOMAIN edges = 0..plot_width
            /\ \A j \in 0..(plot_width - 1) : edges[j] <= edges[j + 1]
            /\ edges[0] = 0
            /\ edges[plot_width] = global_max * plot_width
            /\ \A key \in DOMAIN call.out.groups :
                  SumCounts(call.out.hists[key], 1) = Len(call.out.groups[key])

ImportCalled == call.op = "import_result"

\* The files of the call, with their paths under artifacts/.
ArtifactsOf(artifact_paths) == iter_artifacts(artifact_paths, 1)

\* The earlier successful imports under the test name of the call.
EarlierSameTest == {p \in call.earlier : p.test_name = call.test_name}

\* C14: an import of the artifact set of an earlier successful import under
\* the same test name fails because the Result directory is there
\* (FileExistsError of os.mkdir, the duplicate-result error), and leaves the
\* store as it was: no file created, overwritten or removed.
C14_ImportIdempotence ==
    ImportCalled =>
        ((\E p \in EarlierSameTest :
              ArtifactsOf(p.artifact_paths) = ArtifactsOf(call.artifact_paths))
         => /\ call.out.status = "FileExistsError"
            /\ call.out.result_dir \in ChildNamesOf(call.before)
            /\ root = call.before)

\* The same artifact paths imported twice in a row, the second import failing.
C14_Witness ==
    /\ ImportCalled
    /\ call.n = 2
    /\ [test_name |-> call.test_name, artifact_paths |-> call.artifact_paths] \in call.earlier
    /\ Len(call.artifact_paths) > 0
    /\ call.out.status = "FileExistsError"
    /\ Len(root.children) = 1

\* The artifact set of the call: the files by eventual path and content.
ArtifactSet(artifact_paths) ==
    LET artifacts == ArtifactsOf(artifact_paths)
    IN  {artifacts[i] : i \in 1..Len(artifacts)}

\* C15: an import whose artifact set differs, in the content or in the name
\* or relative path of some file, from that of every earlier successful
\* import under the same test name succeeds and makes a Result directory of
\* its own; an import fails as a duplicate only when its artifact set is
\* that of an earlier successful import under the same test name.
C15_IdentityCoversContent ==
    ImportCalled =>
        /\ (\A p \in EarlierSameTest :
                ArtifactSet(p.artifact_paths) # ArtifactSet(call.artifact_paths))
            => /\ call.out.status = "ok"
               /\ call.out.result_dir \notin ChildNamesOf(call.before)
               /\ call.out.result_dir \in ChildNamesOf(root)
        /\ call.out.status = "FileExistsError"
            => \E p \in EarlierSameTest :
                   ArtifactSet(p.artifact_paths) = ArtifactSet(call.artifact_paths)

\* C16: after a successful import_result the Db in memory has an entry for
\* the new Result directory.
C16_ImportUpdatesDb ==
    ImportCalled /\ Len(call.artifact_paths) > 0 /\ call.out.status = "ok" =>
        call.out.result_dir \in DOMAIN db.results

EnrichCalled == res.op = "enrich_from_bpftrace_logs"

\* The line contains the key, then white space, then a digit.
LineMatches(line) ==
    \E i \in 1..Len(line) : \E s \in (i + 1)..(Len(line) - 1) :
        /\ line[i] = KEY
        /\ \A j \in (i + 1)..s : line[j] = " "
        /\ line[s + 1] \in Digits

LinesOf(artifact) == splitlines(artifact.content, 1, <<>>)

MatchingLines(artifact) ==
    {k \in 1..Len(LinesOf(artifact)) : LineMatches(LinesOf(artifact)[k])}

\* The integer a matching line gives.
ExitsOf(line) == LET digits == re_search(line, 1)[1] IN int(digits, Len(digits))

\* C17: on an artifact whose path matches */bpftrace_asi_exits.log,
\* enrich_from_bpftrace_logs returns, when some line has the key followed by
\* white space and digits, the one Fact instrumented=True and the one Metric
\* asi_exits with the integer of the last such line, and nothing when no
\* line has; the Fact is returned exactly when the Metric is.  On any other
\* path it returns two empty sequences.
C17_BpftraceEnricher ==
    EnrichCalled =>
        LET artifact == res.artifact
            matching == MatchingLines(artifact)
            facts == res.out.facts
            metrics == res.out.metrics
        IN  /\ MatchesGlob(artifact.path) /\ matching # {} =>
                  /\ facts = <<[name |-> "instrumented", value |-> TRUE, unit |-> None]>>
                  /\ Len(metrics) = 1
                  /\ metrics[1].name = "asi_exits"
                  /\ metrics[1].value = IntVal(ExitsOf(LinesOf(artifact)[Max(matching)]))
            /\ MatchesGlob(artifact.path) /\ matching = {} =>
                  facts = <<>> /\ metrics = <<>>
            /\ (\E i \in 1..Len(facts) : facts[i].name = "instrumented")
                  <=> (\E i \in 1..Len(metrics) : metrics[i].name = "asi_exits")
            /\ ~MatchesGlob(artifact.path) => facts = <<>> /\ metrics = <<>>

\* A log with two matching lines of different integers: the Metric has the
\* integer of the second.
C17_Witness ==
    /\ EnrichCalled
    /\ MatchesGlob(res.artifact.path)
    /\ Cardinality(MatchingLines(res.artifact)) = 2
    /\ ExitsOf(LinesOf(res.artifact)[1]) # ExitsOf(LinesOf(res.artifact)[2])
    /\ res.out.metrics[1].value = IntVal(ExitsOf(LinesOf(res.artifact)[2]))
    /\ Len(res.out.facts) = 1

====
